---- MODULE Spec2Model ----
(***************************************************************************)
(* Model of the persistent multi-step transaction scheduler                *)
(* (the MultiTransaction component) and of the plan record it keeps in     *)
(* the encrypted store through TeaWeb3Service.                             *)
(*                                                                         *)
(* One action is one browser task: an event handler, an interval tick or   *)
(* the continuation of an awaited call, together with the batched state    *)
(* update, the re-render and the effects that the re-render runs.          *)
(*                                                                         *)
(* State updates made in one task are applied together (the component is   *)
(* a client component of an app-router build, which batches updates made   *)
(* after an await as well); an effect runs when one of the values in its   *)
(* dependency array differs from the previous render's.  A pending         *)
(* executeCurrentTransaction call keeps the plan and the index of the      *)
(* render that started it.  web3Service and walletConnected are present    *)
(* throughout.  Writes to the store succeed in Spec; in SpecW the store    *)
(* may refuse some writes (quota exceeded), which saveExecutionPlan logs   *)
(* and swallows.                                                           *)
(***************************************************************************)
EXTENDS Integers, Sequences, FiniteSets, TLC

\* ---------------------------------------------------------------- bounds
MaxTx == 4          \* largest transaction count a generated plan has
MaxPlans == 1       \* plans generated in one behaviour
MaxCalls == 3       \* executeCurrentTransaction calls in one behaviour
MaxReloads == 1     \* page reloads in one behaviour
MaxPlansG == 2      \* plans generated in one behaviour of SpecG
MaxCallsG == 2      \* executeCurrentTransaction calls in one behaviour of SpecG
MaxRefused == 1     \* writes the store refuses in one behaviour of SpecW
MaxStake == 4       \* amount of one stake step, in the smallest unit the
                    \* contract counts
PriorStake == 2     \* amount the wallet has staked before the session
MaxSeed == 7        \* sequences of Math.random() draws tried by SpecPlan
MaxCount == 22      \* largest numTransactions handed to the planner
MaxDelay == 1       \* largest delay drawn for a step, in units of the shortest
                    \* interval (30 s); the component compares the countdown
                    \* with 0 only, so the ticks inside one unit are stuttering

VARIABLES
    transactionPlan,          \* useState: the plan object or NoPlan (null)
    currentTransactionIndex,  \* useState
    countdown,                \* useState
    executionStatus,          \* useState
    isExecuting,              \* useState
    isGenerating,             \* useState
    storage,                  \* localStorage entry secure_tea_execution_plan_<wallet>
    inflight,                 \* pending executeCurrentTransaction calls (closures)
    log,                      \* history: one entry per executeCurrentTransaction call
    failedPlans,              \* history: ids of plans whose status has been failed
    stopped,                  \* history: stop was invoked and no plan generated since
    coldStart,                \* history: persisted status the last reload found and the
                              \* calls made before it, until start is invoked
    plansMade,                \* number of plans generated (source of Date.now() ids)
    reloads,                  \* number of reloads
    budget,                   \* plans and calls one behaviour may make (fixed)
    refusable,                \* number of writes the store may still refuse
    persisted,                \* history: step outcomes <<plan id, index>> that a
                              \* stored record has held
    resumed,                  \* history: plan id and index at the last resume whose
                              \* countdown has not reached zero yet
    approvedPlans,            \* history: ids of plans that were approved
    startedPlans,             \* history: ids of plans that start was invoked for
    staked,                   \* the staking contract's staked amount of the wallet
    planner,                  \* one runMultipleTransactions call: its inputs, its
                              \* position and its locals
    secure                    \* SecureStorage and its surroundings: the clock, the
                              \* crypto build, localStorage, the last call made

vars == <<transactionPlan, currentTransactionIndex, countdown, executionStatus,
          isExecuting, isGenerating, storage, inflight, log, failedPlans,
          stopped, coldStart, plansMade, reloads, budget, refusable, persisted,
          resumed, approvedPlans, startedPlans, staked, planner, secure>>

\* the variables of the component, the store and the contract
schedVars == <<transactionPlan, currentTransactionIndex, countdown, executionStatus,
               isExecuting, isGenerating, storage, inflight, log, failedPlans,
               stopped, coldStart, plansMade, reloads, budget, refusable, persisted,
               resumed, approvedPlans, startedPlans, staked>>

\* null plan / absent storage entry
NoPlan == [id |-> 0, status |-> "none", currentIndex |-> 0, transactionSequence |-> <<>>]

\* the object { error } that handleGeneratePlan sets as the plan when the
\* generation failed: it has no id, no status and no transactionSequence
ErrorPlan == [id |-> 0, status |-> "error", currentIndex |-> 0, transactionSequence |-> <<>>]

\* the component's JSX reads transactionPlan.transactionSequence.map of every
\* plan that is not null: rendering an object without a sequence throws,
\* the render is not committed and none of its effects run
RenderThrows(plan) == plan = ErrorPlan

\* the component is mounted: its last state update could be rendered
Mounted == ~RenderThrows(transactionPlan)

\* ---------------------------------------------------------- plan generation
\* numTx after clamping to 2..20 and forcing evenness
\* the amounts drawn for stake steps and the percentages drawn for unstake steps
StakeAmounts == {MaxStake}

Percentages == {50}

EvenCounts == {n \in 2..MaxTx : n % 2 = 0}

\* delays of generateTimeIntervals (30..599 s), in units of 30 s, rounded up
Delays == 1..MaxDelay

\* no planner call is under way
PlannerIdle ==
    [pc |-> "idle", initialized |-> TRUE, parsable |-> TRUE,
     totalStake |-> 0, numTransactions |-> 0, seed |-> 0, balance |-> 0,
     numTx |-> 0, remaining |-> 0, i |-> 0, k |-> 0,
     stakeAmounts |-> <<>>, unstakePercentages |-> <<>>, timeIntervals |-> <<>>,
     transactionSequence |-> <<>>, totalExecutionTime |-> [m |-> 0, s |-> 0],
     status |-> "none", result |-> "none"]

\* the keys of localStorage: a prefix and a name
BackingKeys == {<<"secure_", "a">>, <<"secure_", "b">>, <<"", "theme">>}

\* no entry under a key of localStorage (getItem gives null)
Absent == [kind |-> "absent", key |-> <<>>, salt |-> 0, text |-> "", intact |-> TRUE]

\* an entry some other part of the page wrote
PlainEntry == [kind |-> "plain", key |-> <<>>, salt |-> 0, text |-> "dark", intact |-> TRUE]

\* no call of SecureStorage has been made
NoCall ==
    [op |-> "none", key |-> "", arg |-> "", calls |-> <<>>, raised |-> FALSE, result |-> "none",
     expected |-> "none", decrypts |-> 0, removed |-> 0]

\* nothing has been encrypted
NoHeld == [plain |-> "", blob |-> Absent]

\* no transaction recorded, no history entry in localStorage
NoHistory == [entry |-> [Absent EXCEPT !.text = <<>>], recorded |-> <<>>]

\* the entries the service keeps: the connection metadata, the private key,
\* and the execution plan of the wallet
ConnKeys == {"tea_wallet_connection", "tea_wallet_key", "tea_execution_plan"}

\* the content of no entry
NoContent == [kind |-> "none", key |-> "", sessionToken |-> "", timestamp |-> 0]

\* no entry under a key of the service
NoEntry == [Absent EXCEPT !.text = NoContent]

\* a service that was constructed and not connected, on the first day
ServiceIdle ==
    [wallet |-> FALSE, sessionToken |-> "none", day |-> 0, op |-> "none",
     result |-> "none", removed |-> 0]

\* SecureStorage unused: a supported digest, an empty namespace
SecureIdle ==
    [now |-> 0, digest |-> TRUE,
     backing |-> [k \in BackingKeys |-> IF k[1] = "secure_" THEN Absent ELSE PlainEntry],
     held |-> NoHeld,
     earlier |-> NoHeld,
     drawn |-> {},
     written |-> [n \in {"a", "b"} |-> "none"],
     healed |-> {},
     last |-> NoCall,
     history |-> NoHistory,
     vault |-> [k \in ConnKeys |-> NoEntry],
     service |-> ServiceIdle]

\* no resume is waiting for its countdown
NoResume == [id |-> 0, idx |-> 0]

\* toFixed(3) of amount * percentage / 100, with the unit as the last digit
EstimatedAmount(a, p) == (a * p + 50) \div 100

\* one step of transactionSequence: stake at even positions, unstake at odd;
\* a is the amount of the pair's stake, p the percentage of its unstake
NewStep(i, d, a, p) ==
    [type |-> IF i % 2 = 1 THEN "stake" ELSE "unstake",
     amount |-> IF i % 2 = 1 THEN a ELSE 0,
     percentage |-> IF i % 2 = 1 THEN 0 ELSE p,
     estimatedAmount |-> IF i % 2 = 1 THEN 0 ELSE EstimatedAmount(a, p),
     delay |-> d, executed |-> FALSE, hash |-> 0, executedAt |-> 0]

\* the plan object returned by runMultipleTransactions
NewPlan(id, n, ds, as, ps) ==
    [id |-> id, status |-> "pending_approval", currentIndex |-> 0,
     transactionSequence |->
        [i \in 1..n |-> NewStep(i, ds[i], as[(i + 1) \div 2], ps[(i + 1) \div 2])]]

\* ------------------------------------------------------------ persistence
\* the object the save effect hands to saveExecutionPlan
UpdatedPlan(plan, idx, st) == [plan EXCEPT !.currentIndex = idx, !.status = st]

\* the outcomes a write to the store can have
WriteOutcomes(left) == IF left > 0 THEN BOOLEAN ELSE {TRUE}

\* a save that reports a refused write by failing the run
SaveEffectFailsRun(store, plan, idx, st, ok) ==
    [store |-> IF ok THEN UpdatedPlan(plan, idx, st) ELSE store,
     st |-> IF ok THEN st ELSE "failed"]

\* the save effect: saveExecutionPlan writes the record, or logs a refused
\* write and returns; the status is left as it is either way
SaveEffect(store, plan, idx, st, ok) ==
    [store |-> IF ok THEN UpdatedPlan(plan, idx, st) ELSE store,
     st |-> st]

\* the step outcomes a stored record holds: step i executed with its hash
\* and the index past it
OutcomesIn(store) ==
    IF store = NoPlan THEN {}
    ELSE {<<store.id, i>> : i \in {j \in 0..(Len(store.transactionSequence) - 1) :
                /\ store.transactionSequence[j + 1].executed
                /\ store.transactionSequence[j + 1].hash # 0
                /\ store.currentIndex > j}}

\* ------------------------------------------------------------- the effects
\* the guard without its check of the status
CountdownExpiredAnyStatus(cd, st, plan) == cd = 0 /\ plan # NoPlan

\* guard of the countdown effect's execute branch
CountdownExpired(cd, st, plan) == cd = 0 /\ st = "running" /\ plan # NoPlan

\* the interval of the countdown effect exists
Armed == countdown > 0 /\ executionStatus = "running"

\* Date.now() as a logical clock: advances with every completed call
Now == 1 + Cardinality({c \in 1..Len(log) : log[c].result # "pending"})

Len0(plan) == Len(plan.transactionSequence)

\* the step at 0-based index idx
StepAt(plan, idx) == plan.transactionSequence[idx + 1]

\* log entry of a new executeCurrentTransaction call
NewCall(plan, idx) ==
    [planId |-> plan.id, idx |-> idx,
     submitted |-> StepAt(plan, idx).type = "stake",
     result |-> "pending",
     type |-> StepAt(plan, idx).type,
     percentage |-> StepAt(plan, idx).percentage,
     estimatedAmount |-> StepAt(plan, idx).estimatedAmount,
     balance |-> 0,
     amount |-> StepAt(plan, idx).amount,
     afterFailure |-> StepAt(plan, idx).type = "stake" /\ plan.id \in failedPlans]

\* The re-render after a batched state update and the effects it runs:
\* the save effect, then the countdown effect (which may call
\* executeCurrentTransaction).  prev holds the previous render's values,
\* planSet tells that setTransactionPlan stored a new object, store1 and
\* fl1 are the storage and the pending calls as the handler left them.
Render(prev, plan, planSet, idx, cd, st0, ex, store1, fl1, log1) ==
    LET saveRuns == plan # NoPlan /\ (planSet \/ idx # prev.idx \/ st0 # prev.st)
    IN
    \E ok \in (IF saveRuns THEN WriteOutcomes(refusable) ELSE {TRUE}) :
    LET left == IF ok THEN refusable ELSE refusable - 1
        saved == SaveEffect(store1, plan, idx, st0, ok)
        store2 == IF saveRuns THEN saved.store ELSE store1
        st == IF saveRuns THEN saved.st ELSE st0
        depsChanged == cd # prev.cd \/ st # prev.st \/ idx # prev.idx
        fire == depsChanged /\ CountdownExpired(cd, st, plan)
    IN  /\ transactionPlan' = plan
        /\ currentTransactionIndex' = idx
        /\ countdown' = cd
        /\ IF ~fire
           THEN /\ refusable' = left
                /\ executionStatus' = st
                /\ isExecuting' = ex
                /\ storage' = store2
                /\ inflight' = fl1
                /\ log' = log1
           ELSE IF idx >= Len0(plan)
           THEN \* executeCurrentTransaction returns early; its status update
                \* re-renders and the save effect runs once more
                /\ executionStatus' = "completed"
                /\ isExecuting' = FALSE
                /\ \E ok2 \in WriteOutcomes(left) :
                     /\ refusable' = (IF ok2 THEN left ELSE left - 1)
                     /\ storage' = SaveEffect(store2, plan, idx, "completed", ok2).store
                /\ inflight' = fl1
                /\ log' = log1
           ELSE /\ Len(log1) < budget.calls
                /\ refusable' = left
                /\ executionStatus' = st
                /\ isExecuting' = ex
                /\ storage' = store2
                /\ log' = Append(log1, NewCall(plan, idx))
                /\ inflight' = fl1 \cup
                      {[call |-> Len(log1) + 1, plan |-> plan, idx |-> idx,
                        amount |-> StepAt(plan, idx).amount,
                        phase |-> IF StepAt(plan, idx).type = "stake"
                                  THEN "submit" ELSE "read"]}
        /\ persisted' = persisted \cup OutcomesIn(storage')
        /\ UNCHANGED <<budget, planner, secure>>

\* the values of the previous render that the effects' dependency arrays compare
Prev == [idx |-> currentTransactionIndex, cd |-> countdown, st |-> executionStatus]

\* the values of the first render after mount
Mount == [idx |-> 0, cd |-> 0, st |-> "idle"]

\* the component after mount with an empty store
InitScheduler ==
    /\ transactionPlan = NoPlan
    /\ currentTransactionIndex = 0
    /\ countdown = 0
    /\ executionStatus = "idle"
    /\ isExecuting = FALSE
    /\ isGenerating = FALSE
    /\ storage = NoPlan
    /\ inflight = {}
    /\ log = <<>>
    /\ failedPlans = {}
    /\ stopped = FALSE
    /\ coldStart = [status |-> "none", calls |-> 0]
    /\ plansMade = 0
    /\ reloads = 0
    /\ persisted = {}
    /\ resumed = NoResume
    /\ approvedPlans = {}
    /\ startedPlans = {}
    /\ staked = PriorStake

\* the store accepts every write
Init ==
    /\ InitScheduler
    /\ budget = [plans |-> MaxPlans, calls |-> MaxCalls]
    /\ refusable = 0
    /\ planner = PlannerIdle
    /\ secure = SecureIdle

\* the store refuses up to MaxRefused writes
InitW ==
    /\ InitScheduler
    /\ budget = [plans |-> MaxPlans, calls |-> MaxCalls]
    /\ refusable = MaxRefused
    /\ planner = PlannerIdle
    /\ secure = SecureIdle

\* plans are generated repeatedly
InitG ==
    /\ InitScheduler
    /\ budget = [plans |-> MaxPlansG, calls |-> MaxCallsG]
    /\ refusable = 0
    /\ planner = PlannerIdle
    /\ secure = SecureIdle

\* ------------------------------------------------------------ the handlers
\* handleGeneratePlan up to its await
GenerateBegin ==
    /\ Mounted
    /\ ~isGenerating
    /\ executionStatus \notin {"running", "paused"}
    /\ plansMade < budget.plans
    /\ isGenerating' = TRUE
    /\ UNCHANGED <<transactionPlan, currentTransactionIndex, countdown, executionStatus,
                   isExecuting, storage, inflight, log, failedPlans, stopped,
                   coldStart, plansMade, reloads, budget, refusable, persisted,
                   resumed, approvedPlans, startedPlans, staked, planner, secure>>

\* handleGeneratePlan after runMultipleTransactions returned a plan
GenerateDone ==
    /\ isGenerating
    /\ \E n \in EvenCounts : \E ds \in [1..n -> Delays] :
       \E as \in [1..(n \div 2) -> StakeAmounts], ps \in [1..(n \div 2) -> Percentages] :
         Render(Prev, NewPlan(plansMade + 1, n, ds, as, ps), TRUE, 0, countdown, "idle",
                isExecuting, storage, inflight, log)
    /\ isGenerating' = FALSE
    /\ plansMade' = plansMade + 1
    /\ stopped' = FALSE
    /\ UNCHANGED <<failedPlans, coldStart, reloads, resumed, approvedPlans, startedPlans, staked>>

\* a failed generation whose error object is rendered and saved like a plan
GenerateFailsCommitted ==
    /\ isGenerating
    /\ Render(Prev, ErrorPlan, TRUE, currentTransactionIndex, countdown,
              executionStatus, isExecuting, storage, inflight, log)
    /\ isGenerating' = FALSE
    /\ UNCHANGED <<failedPlans, stopped, coldStart, plansMade, reloads, resumed,
                   approvedPlans, startedPlans, staked>>

\* handleGeneratePlan after runMultipleTransactions returned a failure or
\* threw: the error object is set as the plan, the render of it throws and
\* the component goes away with the effects of that render not run
GenerateFails ==
    /\ isGenerating
    /\ RenderThrows(ErrorPlan)
    /\ transactionPlan' = ErrorPlan
    /\ isGenerating' = FALSE
    /\ UNCHANGED <<currentTransactionIndex, countdown, executionStatus, isExecuting,
                   storage, inflight, log, failedPlans, stopped, coldStart,
                   plansMade, reloads, budget, refusable, persisted, resumed,
                   approvedPlans, startedPlans, staked, planner, secure>>

\* handleApprovePlan (button shown while the plan is pending approval)
handleApprovePlan ==
    /\ transactionPlan # NoPlan
    /\ transactionPlan.status = "pending_approval"
    /\ Render(Prev, [transactionPlan EXCEPT !.status = "approved"], TRUE,
              currentTransactionIndex, countdown, "approved", isExecuting,
              storage, inflight, log)
    /\ approvedPlans' = approvedPlans \cup {transactionPlan.id}
    /\ UNCHANGED <<isGenerating, failedPlans, stopped, coldStart, plansMade, reloads,
                   resumed, startedPlans, staked>>

\* a reject that drops the plan from the view only
handleRejectPlanKeepsRecord ==
    /\ transactionPlan # NoPlan
    /\ transactionPlan.status = "pending_approval"
    /\ Render(Prev, NoPlan, TRUE, 0, countdown, "idle", isExecuting,
              storage, inflight, log)
    /\ UNCHANGED <<isGenerating, failedPlans, stopped, coldStart, plansMade, reloads,
                   resumed, approvedPlans, startedPlans, staked>>

\* handleRejectPlan (button shown while the plan is pending approval)
handleRejectPlan ==
    /\ transactionPlan # NoPlan
    /\ transactionPlan.status = "pending_approval"
    /\ Render(Prev, NoPlan, TRUE, 0, countdown, "idle", isExecuting,
              NoPlan, inflight, log)
    /\ UNCHANGED <<isGenerating, failedPlans, stopped, coldStart, plansMade, reloads,
                   resumed, approvedPlans, startedPlans, staked>>

\* a Start button that does not look at the plan's status
StartShownUnapproved(plan, st) ==
    /\ plan # NoPlan
    /\ st # "running"
    /\ st # "completed"

\* condition under which the Start/Resume button is rendered
StartShown(plan, st) ==
    /\ plan # NoPlan
    /\ plan.status \in {"approved", "paused"}
    /\ st # "running"
    /\ st # "completed"

\* the countdown startExecution leaves: the delay of the current step; when
\* the index is past the sequence, reading .delay throws after the status
\* updates were queued and the countdown keeps its value
StartDelay(plan, idx, cd) ==
    IF idx < Len0(plan) THEN StepAt(plan, idx).delay ELSE cd

\* the Start/Resume button resumes a paused plan at a step of its sequence
Resuming ==
    /\ executionStatus = "paused"
    /\ currentTransactionIndex < Len0(transactionPlan)

\* startExecution (the Start/Resume button)
startExecution ==
    /\ StartShown(transactionPlan, executionStatus)
    /\ Len0(transactionPlan) # 0
    /\ Render(Prev, transactionPlan, FALSE, currentTransactionIndex,
              StartDelay(transactionPlan, currentTransactionIndex, countdown),
              "running", TRUE, storage, inflight, log)
    /\ coldStart' = [status |-> "none", calls |-> Len(log)]
    /\ startedPlans' = startedPlans \cup {transactionPlan.id}
    /\ resumed' = IF Resuming THEN [id |-> transactionPlan.id, idx |-> currentTransactionIndex]
                  ELSE NoResume
    /\ UNCHANGED <<isGenerating, failedPlans, stopped, plansMade, reloads, approvedPlans, staked>>

\* the state pauseExecution sets: status and isExecuting
PauseUpdate == [st |-> "paused", ex |-> FALSE, idx |-> currentTransactionIndex]

\* pauseExecution (button shown while running)
pauseExecution ==
    /\ Mounted
    /\ executionStatus = "running"
    /\ Render(Prev, transactionPlan, FALSE, PauseUpdate.idx, countdown,
              PauseUpdate.st, PauseUpdate.ex, storage, inflight, log)
    /\ UNCHANGED <<isGenerating, failedPlans, stopped, coldStart, plansMade, reloads,
                   resumed, approvedPlans, startedPlans, staked>>

\* stopExecution (button shown while running)
stopExecution ==
    /\ Mounted
    /\ executionStatus = "running"
    /\ Render(Prev, NoPlan, TRUE, 0, 0, "idle", FALSE, NoPlan, inflight, log)
    /\ stopped' = TRUE
    /\ UNCHANGED <<isGenerating, failedPlans, coldStart, plansMade, reloads,
                   resumed, approvedPlans, startedPlans, staked>>

\* the Clear button (shown when completed or failed)
ClearPlan ==
    /\ Mounted
    /\ executionStatus \in {"completed", "failed"}
    /\ Render(Prev, NoPlan, TRUE, 0, countdown, "idle", isExecuting,
              storage, inflight, log)
    /\ UNCHANGED <<isGenerating, failedPlans, stopped, coldStart, plansMade, reloads,
                   resumed, approvedPlans, startedPlans, staked>>

\* one tick of the countdown effect's interval
Tick ==
    /\ Mounted
    /\ Armed
    /\ Render(Prev, transactionPlan, FALSE, currentTransactionIndex, countdown - 1,
              executionStatus, isExecuting, storage, inflight, log)
    /\ resumed' = IF countdown - 1 = 0 THEN NoResume ELSE resumed
    /\ UNCHANGED <<isGenerating, failedPlans, stopped, coldStart, plansMade, reloads,
                   approvedPlans, startedPlans, staked>>

\* ------------------------------------------- executeCurrentTransaction
\* an unstake amount taken from the plan's estimate
UnstakeAmountEstimated(currentStaked, currentTx) == currentTx.estimatedAmount

\* the amount executeCurrentTransaction passes to unstake: the percentage of
\* the balance just read, cut to the unit
UnstakeAmount(currentStaked, currentTx) ==
    (currentStaked * currentTx.percentage) \div 100

\* what getStakedAmount returns: the contract's amount, or "0.0" when the
\* read of the contract fails
GetStakedAmount(amount, readOk) == IF readOk THEN amount ELSE 0

\* getStakedAmount returned: the unstake amount is computed and unstake is called
BalanceRead(c) ==
    /\ c \in inflight
    /\ c.phase = "read"
    /\ \E readOk \in (IF staked = 0 THEN {TRUE} ELSE BOOLEAN) :
       LET currentStaked == GetStakedAmount(staked, readOk)
           unstakeAmount == UnstakeAmount(currentStaked, StepAt(c.plan, c.idx))
       IN  /\ inflight' = (inflight \ {c}) \cup
                              {[c EXCEPT !.phase = "submit", !.amount = unstakeAmount]}
           /\ log' = [log EXCEPT ![c.call].submitted = TRUE,
                                 ![c.call].balance = currentStaked,
                                 ![c.call].amount = unstakeAmount,
                                 ![c.call].afterFailure = c.plan.id \in failedPlans]
    /\ UNCHANGED <<transactionPlan, currentTransactionIndex, countdown, executionStatus,
                   isExecuting, isGenerating, storage, failedPlans, stopped,
                   coldStart, plansMade, reloads, budget, refusable, persisted,
                   resumed, approvedPlans, startedPlans, staked, planner, secure>>

\* the plan executeCurrentTransaction stores after a successful submission
MarkExecuted(c) ==
    [c.plan EXCEPT !.transactionSequence[c.idx + 1] =
        [@ EXCEPT !.executed = TRUE, !.hash = c.call, !.executedAt = Now]]

\* state set by the success branch: the plan with the step marked, then
\* either the next index and its delay, or completed and the record cleared
OnSuccess(c) ==
    IF c.idx + 1 < Len0(c.plan)
    THEN [plan |-> MarkExecuted(c), planSet |-> TRUE, idx |-> c.idx + 1,
          cd |-> StepAt(c.plan, c.idx + 1).delay,
          st |-> executionStatus, ex |-> isExecuting, store |-> storage]
    ELSE [plan |-> MarkExecuted(c), planSet |-> TRUE, idx |-> currentTransactionIndex,
          cd |-> countdown,
          st |-> "completed", ex |-> FALSE, store |-> NoPlan]

\* a failure branch that moves on to the next step
OnFailureAdvances(c) ==
    [plan |-> transactionPlan, planSet |-> FALSE, idx |-> currentTransactionIndex + 1,
     cd |-> countdown, st |-> "failed", ex |-> FALSE, store |-> storage]

\* state set by the failure branch and by the catch block
OnFailure(c) ==
    [plan |-> transactionPlan, planSet |-> FALSE, idx |-> currentTransactionIndex,
     cd |-> countdown, st |-> "failed", ex |-> FALSE, store |-> storage]

\* the contract can carry out the call: an unstake within the staked amount;
\* an unstake of "0" takes all that is staked and fails when nothing is
Covered(c) ==
    StepAt(c.plan, c.idx).type = "unstake"
        => (IF c.amount = 0 THEN staked > 0 ELSE c.amount <= staked)

\* the staked amount after the call succeeded; unstake of "0" unstakes all
StakedAfter(c) ==
    IF StepAt(c.plan, c.idx).type = "stake" THEN staked + c.amount
    ELSE IF c.amount = 0 THEN 0
    ELSE staked - c.amount

\* executeCurrentTransaction after its awaited call settled with outcome r
Settle(c, r) ==
    LET u == IF r = "success" THEN OnSuccess(c) ELSE OnFailure(c)
    IN  /\ IF Mounted
           THEN /\ Render(Prev, u.plan, u.planSet, u.idx, u.cd, u.st, u.ex, u.store,
                          inflight \ {c}, [log EXCEPT ![c.call].result = r])
                /\ failedPlans' = IF r # "success" /\ transactionPlan # NoPlan
                                  THEN failedPlans \cup {transactionPlan.id}
                                  ELSE failedPlans
           ELSE \* the state updates of a component that went away do nothing
                /\ inflight' = inflight \ {c}
                /\ log' = [log EXCEPT ![c.call].result = r]
                /\ UNCHANGED <<transactionPlan, currentTransactionIndex, countdown,
                               executionStatus, isExecuting, storage, failedPlans,
                               budget, refusable, persisted, planner, secure>>
        /\ r = "success" => Covered(c)
        /\ staked' = IF r = "success" THEN StakedAfter(c) ELSE staked
        /\ UNCHANGED <<isGenerating, stopped, coldStart, plansMade, reloads,
                       resumed, approvedPlans, startedPlans>>

\* stake/unstake resolved with success
SubmitSucceeds(c) == c \in inflight /\ c.phase = "submit" /\ Settle(c, "success")

\* stake/unstake resolved with success: false
SubmitFails(c) == c \in inflight /\ c.phase = "submit" /\ Settle(c, "failure")

\* stake, unstake or getStakedAmount threw (service without contract)
CallThrows(c) == c \in inflight /\ Settle(c, "failure")

\* ------------------------------------------------------------------ reload
\* a load effect that takes a paused plan for a running one
LoadSavedResumesPaused(savedPlan) ==
    IF savedPlan # NoPlan /\ savedPlan.status # "completed"
    THEN [plan |-> savedPlan, planSet |-> TRUE, idx |-> savedPlan.currentIndex,
          st |-> IF savedPlan.status = "paused" THEN "running" ELSE savedPlan.status,
          ex |-> savedPlan.status \in {"executing", "running", "paused"}]
    ELSE [plan |-> NoPlan, planSet |-> FALSE, idx |-> 0, st |-> "idle", ex |-> FALSE]

\* a load effect that restarts the plan at its first step
LoadSavedFromStart(savedPlan) ==
    IF savedPlan # NoPlan /\ savedPlan.status # "completed"
    THEN [plan |-> savedPlan, planSet |-> TRUE, idx |-> 0,
          st |-> savedPlan.status,
          ex |-> savedPlan.status \in {"executing", "running"}]
    ELSE [plan |-> NoPlan, planSet |-> FALSE, idx |-> 0, st |-> "idle", ex |-> FALSE]

\* state the load effect sets from the stored record
LoadSaved(savedPlan) ==
    IF savedPlan # NoPlan /\ savedPlan.status # "completed"
    THEN [plan |-> savedPlan, planSet |-> TRUE, idx |-> savedPlan.currentIndex,
          st |-> savedPlan.status,
          ex |-> savedPlan.status \in {"executing", "running"}]
    ELSE [plan |-> NoPlan, planSet |-> FALSE, idx |-> 0, st |-> "idle", ex |-> FALSE]

\* what loadExecutionPlan returns: the stored record when getSecureItem can
\* decrypt it (the key it derives at the time of the read is the key of the
\* write), null when it cannot
LoadExecutionPlan(store, readable) == IF readable THEN store ELSE NoPlan

\* the store after loadExecutionPlan: getSecureItem removes a record it
\* cannot decrypt
StoreAfterLoad(store, readable) == IF readable THEN store ELSE NoPlan

\* page reload: component state starts afresh, pending continuations are
\* gone, the load effect reads the stored record
Reload ==
    /\ reloads < MaxReloads
    /\ reloads' = reloads + 1
    /\ \E readable \in (IF storage = NoPlan THEN {TRUE} ELSE BOOLEAN) :
       LET savedPlan == LoadExecutionPlan(storage, readable)
           u == LoadSaved(savedPlan)
       IN  /\ Render(Mount, u.plan, u.planSet, u.idx, 0, u.st, u.ex,
                     StoreAfterLoad(storage, readable), {}, log)
           /\ coldStart' = [status |-> IF u.plan # NoPlan THEN savedPlan.status ELSE "none",
                            calls |-> Len(log)]
    /\ isGenerating' = FALSE
    /\ UNCHANGED <<failedPlans, stopped, plansMade, resumed, approvedPlans, startedPlans, staked>>

\* the continuations of the pending calls, one browser task each
BalanceReturns == \E c \in inflight : BalanceRead(c)

SubmissionSucceeds == \E c \in inflight : SubmitSucceeds(c)

SubmissionFails == \E c \in inflight : SubmitFails(c)

SubmissionThrows == \E c \in inflight : CallThrows(c)

Next ==
    \/ GenerateBegin
    \/ GenerateDone
    \/ GenerateFails
    \/ handleApprovePlan
    \/ handleRejectPlan
    \/ startExecution
    \/ pauseExecution
    \/ stopExecution
    \/ ClearPlan
    \/ Tick
    \/ BalanceReturns
    \/ SubmissionSucceeds
    \/ SubmissionFails
    \/ SubmissionThrows
    \/ Reload

Spec == Init /\ [][Next]_vars

\* the same program over a store that may refuse writes
SpecW == InitW /\ [][Next]_vars

\* the same program in sessions that generate one plan after another
SpecG == InitG /\ [][Next]_vars


\* ------------------------------------------------------------ the planner
\* runMultipleTransactions as a machine of its own (SpecPlan): amounts are
\* counted in units of 1/Unit TEA, decimal arithmetic stands for the
\* floating-point arithmetic, and the k-th Math.random() draw of a call is
\* Draw(seed, k) thousandths.  The scheduler above takes the planner's
\* result as an input (GenerateDone).
Unit == 10000

Min(a, b) == IF a < b THEN a ELSE b

Max(a, b) == IF a > b THEN a ELSE b

\* the totalStake values, numTransactions values and wallet balances tried
Totals == {0 - Unit, 0, 10, Unit \div 2, Unit, 3 * Unit, 10 * Unit}

Counts == 0..MaxCount

WalletBalances == {Unit, 10 * Unit}

\* the k-th Math.random() draw, in thousandths: the smallest draw throughout
\* for seed 0, the largest throughout for seed 1, mixed draws for the others
Draw(seed, k) ==
    IF seed = 0 THEN 0
    ELSE IF seed = 1 THEN 999
    ELSE ((seed * 617 + k * 389 + seed * k * 53 + 211) * 7) % 1000

\* x rounded to a multiple of m, halves away from zero
RoundTo(x, m) ==
    IF x >= 0 THEN ((x + m \div 2) \div m) * m
    ELSE 0 - (((0 - x) + m \div 2) \div m) * m

\* Number.prototype.toFixed(d) for d in 0..3
ToFixed(x, d) ==
    RoundTo(x, IF d = 0 THEN Unit
               ELSE IF d = 1 THEN Unit \div 10
               ELSE IF d = 2 THEN Unit \div 100
               ELSE Unit \div 1000)

\* a count that is rounded up to the next even number
ClampEvenUp(n) ==
    LET c == Max(2, Min(20, n)) IN IF c % 2 # 0 THEN c + 1 ELSE c

\* numTx: between 2 and 20, one less when odd
ClampEven(n) ==
    LET c == Max(2, Min(20, n)) IN IF c % 2 # 0 THEN c - 1 ELSE c

\* totalStakeNum: Math.max(0, Number.parseFloat(totalStake) || 0)
TotalStakeNum(parsable, totalStake) == Max(0, IF parsable THEN totalStake ELSE 0)

\* entry of runMultipleTransactions up to the first loop: the check of the
\* contract and the wallet stands before the try and throws to the caller
PlanValidate ==
    /\ planner.pc = "call"
    /\ LET totalStakeNum == TotalStakeNum(planner.parsable, planner.totalStake)
       IN  planner' =
             IF ~planner.initialized
             THEN [planner EXCEPT !.pc = "done", !.result = "thrown"]
             ELSE [planner EXCEPT
                     !.numTx = ClampEven(planner.numTransactions),
                     !.remaining = totalStakeNum,
                     !.pc = IF totalStakeNum <= 0 THEN "done"
                            ELSE IF totalStakeNum > planner.balance THEN "done"
                            ELSE "amounts",
                     !.result = IF totalStakeNum <= 0 THEN "failure"
                                ELSE IF totalStakeNum > planner.balance THEN "failure"
                                ELSE "none"]
    /\ UNCHANGED <<schedVars, secure>>

\* decimalPlaces of an amount that is not the last
DecimalPlaces(r1, r2, r3) ==
    IF r1 < 300 THEN 0 ELSE IF r2 < 600 THEN 1 ELSE IF r3 < 800 THEN 2 ELSE 3

\* lastDecimalPlaces
LastDecimalPlaces(r1, r2) ==
    IF r1 < 400 THEN 0 ELSE IF r2 < 700 THEN 1 ELSE 2

\* the amount one iteration of generateRandomAmounts draws
RandomAmount(remaining, count, i, seed, k) ==
    LET min == Max(Unit, remaining \div 10)
        max == Min((remaining * 3) \div 10, remaining - (count - i - 1) * Unit)
        baseAmount == min + (Draw(seed, k) * (max - min)) \div 1000
    IN  ToFixed(baseAmount,
                DecimalPlaces(Draw(seed, k + 1), Draw(seed, k + 2), Draw(seed, k + 3)))

\* one iteration of the loop of generateRandomAmounts
PlanAmount ==
    /\ planner.pc = "amounts"
    /\ planner.i < planner.numTx \div 2 - 1
    /\ LET amount == RandomAmount(planner.remaining, planner.numTx \div 2, planner.i,
                                  planner.seed, planner.k)
       IN  planner' = [planner EXCEPT
                          !.stakeAmounts = Append(@, amount),
                          !.remaining = @ - amount,
                          !.i = @ + 1,
                          !.k = @ + 4]
    /\ UNCHANGED <<schedVars, secure>>

\* the last amount a generator pushes without rounding it
LastAmountExact(remaining, seed, k) == remaining

\* the last amount: the remaining total, rounded to 0, 1 or 2 decimals
LastAmount(remaining, seed, k) ==
    ToFixed(remaining, LastDecimalPlaces(Draw(seed, k), Draw(seed, k + 1)))

\* generateRandomAmounts after its loop
PlanLastAmount ==
    /\ planner.pc = "amounts"
    /\ planner.i >= planner.numTx \div 2 - 1
    /\ planner' = [planner EXCEPT
                      !.stakeAmounts =
                          IF planner.remaining > 0
                          THEN Append(@, LastAmount(planner.remaining, planner.seed, planner.k))
                          ELSE @,
                      !.i = 0,
                      !.k = @ + 2,
                      !.pc = "percentages"]
    /\ UNCHANGED <<schedVars, secure>>

\* commonPercentages
CommonPercentages == <<10, 15, 20, 25, 30, 35, 40, 45, 50, 60, 70, 75, 80, 85, 90>>

\* one unstake percentage
RandomPercentage(seed, k) ==
    IF Draw(seed, k) < 600
    THEN CommonPercentages[(Draw(seed, k + 1) * Len(CommonPercentages)) \div 1000 + 1]
    ELSE (Draw(seed, k + 1) * 81) \div 1000 + 10

\* one iteration of the loop that fills unstakePercentages
PlanPercentage ==
    /\ planner.pc = "percentages"
    /\ planner' = [planner EXCEPT
                      !.unstakePercentages = Append(@, RandomPercentage(planner.seed, planner.k)),
                      !.i = IF planner.i + 1 < planner.numTx \div 2 THEN @ + 1 ELSE 0,
                      !.k = @ + 2,
                      !.pc = IF planner.i + 1 < planner.numTx \div 2
                             THEN "percentages" ELSE "intervals"]
    /\ UNCHANGED <<schedVars, secure>>

\* an interval without the minimum
RandomIntervalFromZero(seed, k) == (Draw(seed, k + 1) * 90) \div 1000

\* one interval of generateTimeIntervals, in seconds
RandomInterval(seed, k) ==
    IF Draw(seed, k) < 400 THEN 30 + (Draw(seed, k + 1) * 90) \div 1000
    ELSE IF Draw(seed, k + 2) < 700 THEN 120 + (Draw(seed, k + 1) * 180) \div 1000
    ELSE 300 + (Draw(seed, k + 1) * 300) \div 1000

\* one iteration of the loop of generateTimeIntervals
PlanInterval ==
    /\ planner.pc = "intervals"
    /\ planner' = [planner EXCEPT
                      !.timeIntervals = Append(@, RandomInterval(planner.seed, planner.k)),
                      !.i = IF planner.i + 1 < planner.numTx THEN @ + 1 ELSE 0,
                      !.k = @ + 3,
                      !.pc = IF planner.i + 1 < planner.numTx THEN "intervals" ELSE "assemble"]
    /\ UNCHANGED <<schedVars, secure>>

RECURSIVE SumSeq(_)
\* the sum of a sequence of numbers
SumSeq(q) == IF q = <<>> THEN 0 ELSE Head(q) + SumSeq(Tail(q))

\* types that repeat in pairs
StepTypePaired(j) == IF ((j + 1) \div 2) % 2 = 1 THEN "stake" ELSE "unstake"

\* the type of the j-th step pushed (from 1): the loop pushes stake i, then unstake i
StepType(j) == IF j % 2 = 1 THEN "stake" ELSE "unstake"

\* an executeAt that leaves out the step's own delay
ExecuteAtBefore(currentTime, interval) == currentTime

\* executeAt of a step: the running time plus the step's delay
ExecuteAt(currentTime, interval) == currentTime + interval

\* the j-th step of the sequence (from 1), pushed when the running time is
\* currentTime; a stake whose amount the generator did not produce carries
\* an undefined amount
PlannedStep(j, currentTime, stakeAmounts, unstakePercentages, timeIntervals) ==
    LET i == (j + 1) \div 2
        defined == i <= Len(stakeAmounts)
        amount == IF defined THEN stakeAmounts[i] ELSE 0
    IN  [type |-> StepType(j),
         amountDefined |-> IF StepType(j) = "stake" THEN defined ELSE FALSE,
         amount |-> IF StepType(j) = "stake" THEN amount ELSE 0,
         percentage |-> IF StepType(j) = "stake" THEN 0 ELSE unstakePercentages[i],
         estimatedDefined |-> IF StepType(j) = "stake" THEN FALSE ELSE defined,
         estimatedAmount |-> IF StepType(j) = "stake" THEN 0
                             ELSE ToFixed((amount * unstakePercentages[i]) \div 100, 3),
         delay |-> timeIntervals[j],
         executeAt |-> ExecuteAt(currentTime, timeIntervals[j])]

RECURSIVE BuildSequence(_, _, _, _, _, _)
\* the steps from the j-th on, pushed in order while currentTime runs on
BuildSequence(j, n, currentTime, stakeAmounts, unstakePercentages, timeIntervals) ==
    IF j > n THEN <<>>
    ELSE <<PlannedStep(j, currentTime, stakeAmounts, unstakePercentages, timeIntervals)>>
         \o BuildSequence(j + 1, n, currentTime + timeIntervals[j],
                          stakeAmounts, unstakePercentages, timeIntervals)

\* `${Math.floor(t / 60)}m ${t % 60}s`
FormatMinSec(t) == [m |-> t \div 60, s |-> t % 60]

\* the sequence and the plan object are built and returned
PlanAssemble ==
    /\ planner.pc = "assemble"
    /\ planner' = [planner EXCEPT
                      !.transactionSequence =
                          BuildSequence(1, 2 * (planner.numTx \div 2), 0,
                                        planner.stakeAmounts, planner.unstakePercentages,
                                        planner.timeIntervals),
                      !.totalExecutionTime = FormatMinSec(SumSeq(planner.timeIntervals)),
                      !.status = "pending_approval",
                      !.pc = "done",
                      !.result = "success"]
    /\ UNCHANGED <<schedVars, secure>>

\* a call of runMultipleTransactions with some inputs and some draws
InitPlan ==
    /\ InitScheduler
    /\ budget = [plans |-> 0, calls |-> 0]
    /\ refusable = 0
    /\ secure = SecureIdle
    /\ \E t \in Totals, n \in Counts, sd \in 0..MaxSeed, b \in WalletBalances,
          init \in BOOLEAN, text \in BOOLEAN :
          /\ ~text => t = 0
          /\ planner = [PlannerIdle EXCEPT !.pc = "call", !.initialized = init,
                                           !.parsable = text, !.totalStake = t,
                                           !.numTransactions = n, !.seed = sd,
                                           !.balance = b]

NextPlan ==
    \/ PlanValidate
    \/ PlanAmount
    \/ PlanLastAmount
    \/ PlanPercentage
    \/ PlanInterval
    \/ PlanAssemble

SpecPlan == InitPlan /\ [][NextPlan]_vars

\* the planner returned a plan
Planned == planner.pc = "done" /\ planner.result = "success"

\* ------------------------------------------------------------ SecureStorage
\* the clock's stamp, Date.now().toString().slice(-6), runs over 0..MaxStamp
\* and wraps
MaxStamp == 1

Stamps == 0..MaxStamp

\* random salts (the IV is drawn with the salt)
Salts == {1, 2}

\* the keys callers use, the values they store, a value JSON.stringify
\* throws on, and the strings handed to encrypt
Names == {"a", "b"}

Values == {"v1", "v2"}

Cyclic == "cyclic"

LoneSurrogate == "\\uD800"

ReplacementChar == "\\uFFFD"

Strings == {"", "abc", "{\"a\":1}", LoneSurrogate}

\* `secure_${key}`
SecureKey(key) == <<"secure_", key>>

\* key.startsWith("secure_")
InNamespace(k) == k[1] = "secure_"

\* generateMasterPassword: the hash of the fingerprint, whose last part is
\* the clock's stamp at the time of the call
MasterPassword(stamp) == <<"fingerprint", stamp>>

\* deriveKey where the digest exists: a hash of the password and the salt
DeriveKey(password, salt) == <<password, salt>>

\* the text as cipher.update(text, "utf8") encodes it and
\* decipher.update(.., "utf8") gives it back
Utf8(text) == IF text = LoneSurrogate THEN ReplacementChar ELSE text

\* the blob encrypt returns at the given stamp: salt, tag and ciphertext of
\* the text under the derived key
Sealed(text, stamp, salt) ==
    [kind |-> "blob", key |-> DeriveKey(MasterPassword(stamp), salt), salt |-> salt,
     text |-> Utf8(text), intact |-> TRUE]

\* decrypt does not throw: the digest exists, the key derived now from the
\* blob's salt is the key of the blob, and the tag verifies
Opens(blob, stamp, digest) ==
    /\ digest
    /\ blob.kind = "blob"
    /\ blob.intact
    /\ blob.key = DeriveKey(MasterPassword(stamp), blob.salt)

\* JSON.stringify and JSON.parse of the values stored
Stringify(v) == "\"" \o v \o "\""

Parse(t) == CHOOSE v \in Values : Stringify(v) = t

\* the record of a call
Call(op, key, arg, calls, raised, result, expected, decrypts) ==
    [op |-> op, key |-> key, arg |-> arg, calls |-> calls, raised |-> raised, result |-> result,
     expected |-> expected, decrypts |-> decrypts, removed |-> 0]

\* the number of entries of the first store that the second does not have
Removed(before, after) ==
    Cardinality({k \in BackingKeys : before[k] # Absent /\ after[k] = Absent})

\* a refused write that takes the key's entry with it
WriteRefusedDropsKey(backing, k) == [backing EXCEPT ![k] = Absent]

\* localStorage.setItem throws (quota): the store is as it was
WriteRefused(backing, k) == backing

\* a failing read that leaves the entry
ReadFailureKeeps(backing, k) == backing

\* the catch of getSecureItem: localStorage.removeItem
ReadFailure(backing, k) == [backing EXCEPT ![k] = Absent]

\* localStorage.removeItem
RemoveItem(backing, k) == [backing EXCEPT ![k] = Absent]

\* a clearing of the whole of localStorage
ClearEverything(backing) == [k \in BackingKeys |-> Absent]

\* clearAllSecureItems
ClearAllSecureItems(backing) ==
    [k \in BackingKeys |-> IF InNamespace(k) THEN Absent ELSE backing[k]]

\* a startup that clears nothing
StartupStoreKeeps(verified, backing) == backing

\* the constructor's use of verifyIntegrity's answer
StartupStore(verified, backing) ==
    IF verified THEN backing ELSE ClearAllSecureItems(backing)

\* the page starts with what an earlier session left under key a
InitStore ==
    /\ InitScheduler
    /\ budget = [plans |-> 0, calls |-> 0]
    /\ refusable = 0
    /\ planner = PlannerIdle
    /\ \E digest \in BOOLEAN, left \in {Absent, Sealed(Stringify("v1"), 0, 1)} :
          secure = [SecureIdle EXCEPT !.digest = digest,
                                      !.backing[SecureKey("a")] = left]

\* a millisecond passes
ClockTick ==
    /\ secure' = [secure EXCEPT !.now = (@ + 1) % (MaxStamp + 1)]
    /\ UNCHANGED <<schedVars, planner>>

\* a byte of a stored blob's ciphertext or tag is changed, or the blob is cut
Tamper ==
    /\ \E n \in Names :
          /\ secure.backing[SecureKey(n)].kind = "blob"
          /\ secure.backing[SecureKey(n)].intact
          /\ secure' = [secure EXCEPT !.backing[SecureKey(n)].intact = FALSE,
                                      !.written[n] = "none"]
    /\ UNCHANGED <<schedVars, planner>>

\* a salt and IV fixed once instead of drawn
StaticSalt(drawn) == {1}

\* what randomBytes may give for the salt and IV after the draws already
\* made: bytes it has not given before
RandomBytes(drawn) == Salts \ drawn

\* SecureStorage.encrypt(s): the salt and IV are drawn, then the key is derived
encrypt ==
    /\ \E s \in Strings, salt \in RandomBytes(secure.drawn) :
          secure' =
            IF secure.digest
            THEN [secure EXCEPT
                    !.held = [plain |-> s, blob |-> Sealed(s, secure.now, salt)],
                    !.earlier = secure.held,
                    !.drawn = @ \cup {salt},
                    !.last = Call("encrypt", "", s, <<>>, FALSE, "blob", "none", 0)]
            ELSE [secure EXCEPT
                    !.held = NoHeld,
                    !.drawn = @ \cup {salt},
                    !.last = Call("encrypt", "", s, <<>>, TRUE, "none", "none", 0)]
    /\ UNCHANGED <<schedVars, planner>>

\* SecureStorage.decrypt of the blob encrypt returned
decrypt ==
    /\ secure.held.blob.kind = "blob"
    /\ secure' =
         IF Opens(secure.held.blob, secure.now, secure.digest)
         THEN [secure EXCEPT
                 !.last = Call("decrypt", "", "", <<>>, FALSE, secure.held.blob.text, "none", 1)]
         ELSE [secure EXCEPT
                 !.last = Call("decrypt", "", "", <<>>, TRUE, "none", "none", 1)]
    /\ UNCHANGED <<schedVars, planner>>

\* SecureStorage.setSecureItem(n, v)
setSecureItem ==
    /\ \E n \in Names, v \in Values \cup {Cyclic}, salt \in Salts, refused \in BOOLEAN :
          secure' =
            IF v = Cyclic \/ ~secure.digest
            THEN [secure EXCEPT
                    !.last = Call("setItem", n, v, <<>>, TRUE, "none", "none", 0)]
            ELSE IF refused
            THEN [secure EXCEPT
                    !.backing = WriteRefused(secure.backing, SecureKey(n)),
                    !.last = Call("setItem", n, v, <<>>, TRUE, "none", "none", 0)]
            ELSE [secure EXCEPT
                    !.backing[SecureKey(n)] = Sealed(Stringify(v), secure.now, salt),
                    !.written[n] = v,
                    !.healed = @ \ ({n} \X BOOLEAN),
                    !.last = Call("setItem", n, v, <<>>, FALSE, v, "none", 0)]
    /\ UNCHANGED <<schedVars, planner>>

\* SecureStorage.getSecureItem(n)
getSecureItem ==
    /\ \E n \in Names :
          LET encrypted == secure.backing[SecureKey(n)]
          IN  secure' =
                IF encrypted.kind = "absent"
                THEN [secure EXCEPT
                        !.last = Call("getItem", n, "", <<>>, FALSE, "null",
                                      secure.written[n], 0)]
                ELSE IF Opens(encrypted, secure.now, secure.digest)
                THEN [secure EXCEPT
                        !.last = Call("getItem", n, "", <<>>, FALSE, Parse(encrypted.text),
                                      secure.written[n], 1)]
                ELSE [secure EXCEPT
                        !.backing = ReadFailure(secure.backing, SecureKey(n)),
                        !.written[n] = "none",
                        !.healed = @ \cup {<<n, encrypted.intact>>},
                        !.last = Call("getItem", n, "", <<>>, FALSE, "null",
                                      secure.written[n], 1)]
    /\ UNCHANGED <<schedVars, planner>>

\* SecureStorage.removeSecureItem(n)
removeSecureItem ==
    /\ \E n \in Names :
          secure' = [secure EXCEPT
                       !.backing = RemoveItem(secure.backing, SecureKey(n)),
                       !.written[n] = "none",
                       !.last = Call("removeItem", n, "", <<>>, FALSE, "none", "none", 0)]
    /\ UNCHANGED <<schedVars, planner>>

\* SecureStorage.clearAllSecureItems()
clearAllSecureItems ==
    /\ secure' = [secure EXCEPT
                    !.backing = ClearAllSecureItems(secure.backing),
                    !.written = [n \in Names |-> "none"],
                    !.last = [Call("clearAll", "", "", <<>>, FALSE, "none", "none", 0)
                              EXCEPT !.removed =
                                 Removed(secure.backing,
                                         ClearAllSecureItems(secure.backing))]]
    /\ UNCHANGED <<schedVars, planner>>

\* verifyIntegrity: a test string is encrypted and decrypted, and the clock
\* may move between the two
VerifyIntegrity(stamp, later, digest) ==
    /\ digest
    /\ \A salt \in Salts : Opens(Sealed("integrity_test", stamp, salt), later, digest)

\* new TeaWeb3Service(): verifyIntegrity, and clearAllSecureData when it
\* answers false
Construct ==
    /\ \E later \in {secure.now, (secure.now + 1) % (MaxStamp + 1)} :
          LET verified == VerifyIntegrity(secure.now, later, secure.digest)
              store == StartupStore(verified, secure.backing)
          IN  secure' = [secure EXCEPT
                           !.now = later,
                           !.backing = store,
                           !.written = IF verified THEN @ ELSE [n \in Names |-> "none"],
                           !.last = [Call("construct", "", "",
                                          IF verified THEN <<"verifyIntegrity">>
                                          ELSE <<"verifyIntegrity", "clearAllSecureItems">>,
                                          FALSE, IF verified THEN "true" ELSE "false",
                                          "none", 0)
                                     EXCEPT !.removed = Removed(secure.backing, store)]]
    /\ UNCHANGED <<schedVars, planner>>

NextStore ==
    \/ ClockTick
    \/ Tamper
    \/ setSecureItem
    \/ getSecureItem
    \/ removeSecureItem
    \/ clearAllSecureItems
    \/ Construct

SpecStore == InitStore /\ [][NextStore]_vars

\* encrypt and decrypt called directly
InitCipher ==
    /\ InitScheduler
    /\ budget = [plans |-> 0, calls |-> 0]
    /\ refusable = 0
    /\ planner = PlannerIdle
    /\ \E digest \in BOOLEAN : secure = [SecureIdle EXCEPT !.digest = digest]

NextCipher ==
    \/ ClockTick
    \/ encrypt
    \/ decrypt

SpecCipher == InitCipher /\ [][NextCipher]_vars

\* ------------------------------------------------------ transaction history
\* the number of transactions one behaviour records
MaxRecorded == 52

\* slice(0, 50)
HistoryCap == 50

\* slice(0, n)
Take(s, n) == SubSeq(s, 1, Min(n, Len(s)))

\* the list a read of the history entry gives: getSecureItem(key) || []
ExistingTxs(entry, stamp, digest) ==
    IF Opens(entry, stamp, digest) THEN entry.text ELSE <<>>

\* saveTransaction of a connected service: the stored list is read, the new
\* transaction is put in front, the first 50 are written back; a write that
\* throws is caught
saveTransaction ==
    /\ Len(secure.history.recorded) < MaxRecorded
    /\ \E salt \in Salts :
          LET transaction == Len(secure.history.recorded) + 1
              entry == secure.history.entry
              existingTxs == ExistingTxs(entry, secure.now, secure.digest)
              updatedTxs == Take(<<transaction>> \o existingTxs, HistoryCap)
              afterRead == IF entry.kind = "blob" /\ ~Opens(entry, secure.now, secure.digest)
                           THEN NoHistory.entry ELSE entry
              afterWrite == IF secure.digest
                            THEN [Sealed("", secure.now, salt) EXCEPT !.text = updatedTxs]
                            ELSE afterRead
          IN  secure' = [secure EXCEPT
                           !.history = [entry |-> afterWrite,
                                        recorded |-> <<transaction>> \o @.recorded]]
    /\ UNCHANGED <<schedVars, planner>>

\* clearTransactionHistory
clearTransactionHistory ==
    /\ secure.history.recorded # <<>>
    /\ secure' = [secure EXCEPT !.history = NoHistory]
    /\ UNCHANGED <<schedVars, planner>>

InitHistory ==
    /\ InitScheduler
    /\ budget = [plans |-> 0, calls |-> 0]
    /\ refusable = 0
    /\ planner = PlannerIdle
    /\ \E digest \in BOOLEAN : secure = [SecureIdle EXCEPT !.digest = digest]

NextHistory ==
    \/ ClockTick
    \/ saveTransaction
    \/ clearTransactionHistory

SpecHistory == InitHistory /\ [][NextHistory]_vars

\* -------------------------------------------------------- wallet connection
\* a private key of valid format, the session tokens generateSessionToken
\* may draw
PrivateKey == "0xa1b2"

Tokens == {"t1", "t2"}

\* the text of a stored item given in clear
SealedInClear(content, stamp, salt) ==
    [kind |-> "plain", key |-> <<>>, salt |-> 0, text |-> content, intact |-> TRUE]

\* the blob setSecureItem stores for a value: encrypt(JSON.stringify(value))
SealedContent(content, stamp, salt) ==
    [Sealed("", stamp, salt) EXCEPT !.text = content]

\* connectionData and the key item of saveWalletConnection, and a plan
ConnectionData(day, token) ==
    [kind |-> "connection", key |-> "", sessionToken |-> token, timestamp |-> day]

KeyData(privateKey, day, token) ==
    [kind |-> "key", key |-> privateKey, sessionToken |-> token, timestamp |-> day]

PlanData == [kind |-> "plan", key |-> "", sessionToken |-> "", timestamp |-> 0]

\* SecurityUtils.validatePrivateKey
ValidatePrivateKey(key) == key = PrivateKey

\* getSecureItem on an entry of the service: the value (NoContent for null)
\* and the store after the read
ReadEntry(vault, k, stamp, digest) ==
    IF vault[k].kind = "absent" THEN [value |-> NoContent, vault |-> vault]
    ELSE IF Opens(vault[k], stamp, digest) THEN [value |-> vault[k].text, vault |-> vault]
    ELSE [value |-> NoContent, vault |-> [vault EXCEPT ![k] = NoEntry]]

\* setSecureItem on an entry of the service, succeeding or throwing
WriteEntry(vault, k, content, stamp, salt, ok) ==
    IF ok THEN [vault EXCEPT ![k] = SealedContent(content, stamp, salt)] ELSE vault

\* a clearing that leaves the key entry
ClearSavedConnectionKeepsKey(vault) ==
    [vault EXCEPT !["tea_wallet_connection"] = NoEntry]

\* clearSavedConnection
ClearSavedConnection(vault) ==
    [vault EXCEPT !["tea_wallet_connection"] = NoEntry, !["tea_wallet_key"] = NoEntry]

\* clearExecutionPlan(this.wallet.address)
ClearExecutionPlan(vault) == [vault EXCEPT !["tea_execution_plan"] = NoEntry]

\* the number of entries of the first store that the second does not have
RemovedEntries(before, after) ==
    Cardinality({k \in ConnKeys : before[k].kind # "absent" /\ after[k].kind = "absent"})

\* connectWallet(privateKey, contractAddress, true) on a service without a
\* wallet: key format, provider, wallet and contract, saveWalletConnection;
\* a save that throws makes the call return a failure with the wallet set
connectWallet ==
    /\ ~secure.service.wallet
    /\ \E valid \in BOOLEAN, provider \in BOOLEAN, token \in Tokens, salt \in Salts,
          w1 \in BOOLEAN, w2 \in BOOLEAN :
          LET ok1 == secure.digest /\ w1
              ok2 == ok1 /\ w2
              v1 == WriteEntry(secure.vault, "tea_wallet_connection",
                               ConnectionData(secure.service.day, token),
                               secure.now, salt, ok1)
              v2 == WriteEntry(v1, "tea_wallet_key",
                               KeyData(PrivateKey, secure.service.day, token),
                               secure.now, salt, ok2)
          IN  secure' =
                IF ~valid \/ ~provider
                THEN [secure EXCEPT !.service.op = "connect",
                                    !.service.result = "failure",
                                    !.service.removed = 0]
                ELSE [secure EXCEPT
                        !.vault = v2,
                        !.service = [wallet |-> TRUE, sessionToken |-> token,
                                     day |-> @.day, op |-> "connect",
                                     result |-> IF ok2 THEN "success" ELSE "failure",
                                     removed |-> 0]]
    /\ UNCHANGED <<schedVars, planner>>

\* loadSavedConnection on a service without a wallet
loadSavedConnection ==
    /\ ~secure.service.wallet
    /\ \E reconnected \in BOOLEAN :
          LET r1 == ReadEntry(secure.vault, "tea_wallet_connection",
                              secure.now, secure.digest)
              connectionData == r1.value
              r2 == ReadEntry(r1.vault, "tea_wallet_key", secure.now, secure.digest)
              keyData == r2.value
              cleared == ClearSavedConnection(r2.vault)
              Failure(v, token) ==
                  [secure EXCEPT
                     !.vault = v,
                     !.service = [@ EXCEPT !.sessionToken = token, !.op = "load",
                                           !.result = "failure",
                                           !.removed = RemovedEntries(secure.vault, v)]]
          IN  secure' =
                IF connectionData = NoContent
                THEN Failure(r1.vault, secure.service.sessionToken)
                ELSE IF keyData = NoContent THEN Failure(cleared, "none")
                ELSE IF connectionData.sessionToken # keyData.sessionToken
                THEN Failure(cleared, "none")
                ELSE IF secure.service.day - connectionData.timestamp > 0
                THEN Failure(cleared, "none")
                ELSE IF ~ValidatePrivateKey(keyData.key) THEN Failure(cleared, "none")
                ELSE IF ~reconnected THEN Failure(cleared, "none")
                ELSE [secure EXCEPT
                        !.vault = r2.vault,
                        !.service = [@ EXCEPT !.wallet = TRUE,
                                              !.sessionToken = connectionData.sessionToken,
                                              !.op = "load", !.result = "success",
                                              !.removed = 0]]
    /\ UNCHANGED <<schedVars, planner>>

\* disconnectWallet
disconnectWallet ==
    /\ LET v1 == ClearSavedConnection(secure.vault)
           v2 == IF secure.service.wallet THEN ClearExecutionPlan(v1) ELSE v1
       IN  secure' = [secure EXCEPT
                        !.vault = v2,
                        !.service = [@ EXCEPT !.wallet = FALSE, !.sessionToken = "none",
                                              !.op = "disconnect", !.result = "none",
                                              !.removed = RemovedEntries(secure.vault, v2)]]
    /\ UNCHANGED <<schedVars, planner>>

\* saveExecutionPlan of a connected wallet; a write that throws is caught
saveExecutionPlan ==
    /\ secure.service.wallet
    /\ \E salt \in Salts, w \in BOOLEAN :
          secure' = [secure EXCEPT
                       !.vault = WriteEntry(@, "tea_execution_plan", PlanData,
                                            secure.now, salt, secure.digest /\ w),
                       !.service.op = "savePlan",
                       !.service.result = "none",
                       !.service.removed = 0]
    /\ UNCHANGED <<schedVars, planner>>

\* the page is loaded again and new TeaWeb3Service() runs: no wallet, no
\* session token, and the secure items cleared when verifyIntegrity answers
\* false
ConstructService ==
    /\ \E later \in {secure.now, (secure.now + 1) % (MaxStamp + 1)} :
          LET verified == VerifyIntegrity(secure.now, later, secure.digest)
              v == IF verified THEN secure.vault ELSE [k \in ConnKeys |-> NoEntry]
          IN  secure' = [secure EXCEPT
                           !.now = later,
                           !.vault = v,
                           !.service = [@ EXCEPT !.wallet = FALSE, !.sessionToken = "none",
                                                 !.op = "construct", !.result = "none",
                                                 !.removed = RemovedEntries(secure.vault, v)]]
    /\ UNCHANGED <<schedVars, planner>>

\* a byte of a stored blob of the service is changed
TamperVault ==
    /\ \E k \in ConnKeys :
          /\ secure.vault[k].kind = "blob"
          /\ secure.vault[k].intact
          /\ secure' = [secure EXCEPT !.vault[k].intact = FALSE]
    /\ UNCHANGED <<schedVars, planner>>

\* more than 24 hours pass
DayPasses ==
    /\ secure.service.day = 0
    /\ secure' = [secure EXCEPT !.service.day = 1]
    /\ UNCHANGED <<schedVars, planner>>

InitConn ==
    /\ InitScheduler
    /\ budget = [plans |-> 0, calls |-> 0]
    /\ refusable = 0
    /\ planner = PlannerIdle
    /\ \E digest \in BOOLEAN : secure = [SecureIdle EXCEPT !.digest = digest]

NextConn ==
    \/ ClockTick
    \/ DayPasses
    \/ TamperVault
    \/ ConstructService
    \/ connectWallet
    \/ loadSavedConnection
    \/ disconnectWallet
    \/ saveExecutionPlan

SpecConn == InitConn /\ [][NextConn]_vars

\* ------------------------------------------------------------ type check
TypeOK ==
    /\ executionStatus \in {"idle", "approved", "running", "paused", "completed", "failed"}
    /\ countdown \in 0..MaxDelay
    /\ currentTransactionIndex \in 0..MaxTx
    /\ Cardinality(inflight) <= budget.calls

\* ------------------------------------------------------------ properties
\* calls whose stake/unstake was invoked
Submitted == {c \in 1..Len(log) : log[c].submitted}

\* C1: no step of a plan is submitted to the TransactionClient more than once
NoDoubleSubmission ==
    \A a, b \in Submitted :
        (log[a].planId = log[b].planId /\ log[a].idx = log[b].idx) => a = b

AllSucceeded(id) ==
    /\ \E c \in 1..Len(log) : log[c].planId = id
    /\ \A c \in 1..Len(log) : log[c].planId = id => log[c].result = "success"

\* C3: when an approved plan whose submissions all succeeded has completed
\* and nothing is pending, storage holds no plan record
CompletedPlanAbsent ==
    (/\ executionStatus = "completed"
     /\ transactionPlan # NoPlan
     /\ AllSucceeded(transactionPlan.id)
     /\ \A i \in 1..Len0(transactionPlan) : transactionPlan.transactionSequence[i].executed
     /\ inflight = {}
     /\ ~isGenerating)
        => storage = NoPlan

\* call c settles with a failure in this step
FailsNow(c) == log[c].result = "pending" /\ log'[c].result = "failure"

\* C4: when the call for the pending step at currentIndex fails, the status
\* becomes failed, currentIndex stays at that step, the plan and the step's
\* executed flag are untouched, no countdown is armed and no call is started
FailureStaysAtStep ==
    [][\A c \in 1..Len(log) :
          (/\ FailsNow(c)
           /\ transactionPlan # NoPlan
           /\ log[c].planId = transactionPlan.id
           /\ log[c].idx = currentTransactionIndex
           /\ ~StepAt(transactionPlan, log[c].idx).executed)
          => (/\ executionStatus' = "failed"
              /\ currentTransactionIndex' = log[c].idx
              /\ transactionPlan' = transactionPlan
              /\ ~StepAt(transactionPlan', log[c].idx).executed
              /\ ~Armed'
              /\ Len(log') = Len(log))]_vars

\* the second step of a plan failed and the scheduler stands at it
FailureAtSecondStep ==
    /\ executionStatus = "failed"
    /\ transactionPlan # NoPlan
    /\ currentTransactionIndex = 1
    /\ ~StepAt(transactionPlan, 1).executed
    /\ StepAt(transactionPlan, 0).executed
    /\ \E c \in 1..Len(log) :
          /\ log[c].result = "failure"
          /\ log[c].submitted
          /\ log[c].planId = transactionPlan.id
          /\ log[c].idx = 1

\* C5: no step of a plan is submitted once that plan's status has been failed
NoSubmissionAfterFailure ==
    \A c \in Submitted : ~log[c].afterFailure

\* C6: after stop, and until a new plan is generated, the countdown is
\* cancelled, currentIndex is 0 and storage holds no plan record
StopLeavesNothing ==
    stopped => (storage = NoPlan /\ currentTransactionIndex = 0 /\ ~Armed)

\* C7: at most one executeCurrentTransaction call is pending
AtMostOneInFlight == Cardinality(inflight) <= 1

IndexMonotone ==
    [][/\ (transactionPlan # NoPlan /\ transactionPlan'.id = transactionPlan.id)
          => (/\ currentTransactionIndex' >= currentTransactionIndex
              /\ currentTransactionIndex' \in 0..Len0(transactionPlan'))
       /\ (storage # NoPlan /\ storage'.id = storage.id)
          => (/\ storage'.currentIndex >= storage.currentIndex
              /\ storage'.currentIndex \in 0..Len0(storage'))]_vars

\* the executed steps of plan p are the same in plan q
KeepsExecuted(p, q) ==
    \A i \in 1..Len0(p) :
        p.transactionSequence[i].executed
            => q.transactionSequence[i] = p.transactionSequence[i]

\* C10: while the same plan is held, an executed step keeps executed, hash
\* and executedAt, in memory and in the stored record
ExecutedStepsImmutable ==
    [][/\ (transactionPlan # NoPlan /\ transactionPlan'.id = transactionPlan.id)
          => KeepsExecuted(transactionPlan, transactionPlan')
       /\ (storage # NoPlan /\ storage'.id = storage.id)
          => KeepsExecuted(storage, storage')]_vars

\* a call whose stake/unstake is invoked in this step
SubmittedNow(c) ==
    /\ log'[c].submitted
    /\ (c > Len(log) \/ ~log[c].submitted)

\* C11: step i+1 of a plan is never submitted before the outcome of step i
\* has been written to the persisted plan record
PersistBeforeNext ==
    [][\A c \in 1..Len(log') :
          (SubmittedNow(c) /\ log'[c].idx > 0)
              => <<log'[c].planId, log'[c].idx - 1>> \in persisted']_vars

\* call c settles with a success in this step
SucceedsNow(c) == log[c].result = "pending" /\ log'[c].result = "success"

\* the stored record is not the one the last render's save would have written
StoreStale ==
    /\ transactionPlan # NoPlan
    /\ storage # UpdatedPlan(transactionPlan, currentTransactionIndex, executionStatus)

\* C12: when the write that saves the progress of a successful step is
\* refused, the status does not become failed, the step stays executed in
\* the plan, and the scheduler moves to the next step and arms its delay
WriteFailureKeepsRunning ==
    [][\A c \in 1..Len(log) :
          (SucceedsNow(c) /\ StoreStale')
              => (/\ executionStatus' = "failed" => executionStatus = "failed"
                  /\ StepAt(transactionPlan', log[c].idx).executed
                  /\ log[c].idx + 1 < Len0(transactionPlan')
                        => (/\ currentTransactionIndex' = log[c].idx + 1
                            /\ countdown' = StepAt(transactionPlan', log[c].idx + 1).delay))]_vars

\* the run goes on after its first step while the stored record still
\* shows that step as not executed
StaleRecordWhileRunning ==
    /\ executionStatus = "running"
    /\ transactionPlan # NoPlan
    /\ currentTransactionIndex = 1
    /\ StepAt(transactionPlan, 0).executed
    /\ (storage = NoPlan \/ (storage.id = transactionPlan.id
                               /\ ~StepAt(storage, 0).executed))

\* C13: resuming a paused plan arms the countdown with the full delay of
\* the step at currentIndex, and that step is not submitted before this
\* countdown has reached zero
ResumeRedelays ==
    [][/\ (Resuming /\ executionStatus' = "running" /\ reloads' = reloads)
          => (/\ countdown' = StepAt(transactionPlan, currentTransactionIndex).delay
              /\ Armed'
              /\ Len(log') = Len(log))
       /\ \A c \in 1..Len(log') :
             SubmittedNow(c)
                => ~(resumed' # NoResume /\ log'[c].planId = resumed'.id
                                         /\ log'[c].idx = resumed'.idx)]_vars

\* C14: a reload of a paused plan whose record is persisted shows the same
\* plan with status paused, the same currentIndex and the same executed
\* steps, and the Start/Resume button is offered
PausedSurvivesReload ==
    [][(/\ reloads' > reloads
        /\ executionStatus = "paused"
        /\ transactionPlan # NoPlan
        /\ storage = UpdatedPlan(transactionPlan, currentTransactionIndex, "paused"))
          => (/\ executionStatus' = "paused"
              /\ transactionPlan' # NoPlan
              /\ transactionPlan'.id = transactionPlan.id
              /\ currentTransactionIndex' = currentTransactionIndex
              /\ transactionPlan'.transactionSequence = transactionPlan.transactionSequence
              /\ StartShown(transactionPlan', executionStatus')
              /\ Len0(transactionPlan') # 0)]_vars

\* a plan paused after its first step is shown again after a reload
PausedPlanReloaded ==
    /\ reloads > 0
    /\ coldStart.status = "paused"
    /\ executionStatus = "paused"
    /\ transactionPlan # NoPlan
    /\ currentTransactionIndex = 1
    /\ StepAt(transactionPlan, 0).executed
    /\ storage = UpdatedPlan(transactionPlan, 1, "paused")

\* the values the ExecutionPlan interface declares for status
PlanStatuses ==
    {"pending_approval", "approved", "executing", "paused", "completed", "failed"}

\* C15: the status of the persisted plan record is one of pending_approval,
\* approved, executing, paused, completed, failed, and the record of a plan
\* that has not been approved has status pending_approval
PersistedStatusDeclared ==
    storage # NoPlan
        => (/\ storage.status \in PlanStatuses
            /\ storage.id \notin approvedPlans => storage.status = "pending_approval")

SubmissionsApproved ==
    \A c \in Submitted :
        log[c].planId \in approvedPlans /\ log[c].planId \in startedPlans

\* the unstake of an approved plan is submitted while a later plan awaits approval
ApprovedSubmittedBesideUnapproved ==
    /\ \E c \in Submitted : log[c].planId = 1 /\ log[c].idx = 1
    /\ 1 \in approvedPlans
    /\ plansMade = 2
    /\ 2 \notin approvedPlans

\* C18: the amount passed to unstake for a step with percentage p is p
\* percent, to the unit, of the staked balance that getStakedAmount returns
\* when the step's call reads it (the contract's amount at that step, or the
\* fallback of a failed read), whatever the plan estimated
FreshPercentage ==
    [][\A c \in 1..Len(log') :
          (SubmittedNow(c) /\ log'[c].type = "unstake")
              => (/\ \E readOk \in BOOLEAN :
                        log'[c].balance = GetStakedAmount(staked, readOk)
                  /\ 100 * log'[c].amount <= log'[c].balance * log'[c].percentage
                  /\ log'[c].balance * log'[c].percentage
                        < 100 * (log'[c].amount + 1))]_vars

\* an unstake was submitted for a balance made of the earlier stake and the
\* plan's first stake
UnstakeOfFreshBalance ==
    \E c \in Submitted :
        /\ log[c].type = "unstake"
        /\ log[c].balance = PriorStake + MaxStake
        /\ log[c].amount > 0

\* C19: the stake amounts of a generated plan sum exactly to totalStake
PlanSumExact ==
    Planned => SumSeq(planner.stakeAmounts) = planner.totalStake

\* C20: the generated sequence has clamp_even(numTransactions) steps, as
\* many as the plan's numTransactions says, and alternates stake, unstake
\* from a stake on
PlanShape ==
    Planned =>
        LET n == planner.numTransactions
            len == Len(planner.transactionSequence)
        IN  /\ len = planner.numTx
            /\ len % 2 = 0
            /\ n < 2 => len = 2
            /\ n > 20 => len = 20
            /\ n \in 2..20 => (len <= n /\ n - len <= 1)
            /\ planner.transactionSequence[1].type = "stake"
            /\ \A j \in 1..(len - 1) :
                  planner.transactionSequence[j].type
                      # planner.transactionSequence[j + 1].type

\* a plan was generated for an odd count above the smallest
OddCountPlanned ==
    /\ Planned
    /\ planner.numTransactions = 7
    /\ Len(planner.transactionSequence) = 6

\* C21: the plan's numTransactions is even and between 2 and 20: the count
\* clamped to that range, less one when that is odd, and never above the
\* larger of the count and 2
ClampedEven ==
    Planned =>
        LET n == planner.numTransactions
            m == planner.numTx
        IN  /\ m % 2 = 0
            /\ m >= 2 /\ m <= 20
            /\ m <= Max(n, 2)
            /\ m = (IF n < 2 THEN 2 ELSE IF n > 20 THEN 20 ELSE n) -
                   (IF n >= 2 /\ n <= 20 /\ n % 2 = 1 THEN 1 ELSE 0)

\* a plan was generated for a count above the range
ClampedFromAbove ==
    /\ Planned
    /\ planner.numTransactions > 20
    /\ planner.numTx = 20

\* C22: every step of a generated plan has a delay between 30 and 600
\* seconds, and one delay is generated per step
DelaysInRange ==
    Planned =>
        /\ Len(planner.timeIntervals) = Len(planner.transactionSequence)
        /\ \A j \in 1..Len(planner.transactionSequence) :
              /\ planner.transactionSequence[j].delay = planner.timeIntervals[j]
              /\ planner.transactionSequence[j].delay >= 30
              /\ planner.transactionSequence[j].delay <= 600

\* a plan was generated under the largest draws: every delay is the longest
LongestDelaysPlanned ==
    /\ Planned
    /\ \A j \in 1..Len(planner.transactionSequence) :
          planner.transactionSequence[j].delay = 599

RECURSIVE DelaySum(_, _)
\* the sum of the delays of the first k steps
DelaySum(seq, k) == IF k = 0 THEN 0 ELSE seq[k].delay + DelaySum(seq, k - 1)

\* C23: the executeAt of every step is the sum of the delays up to and
\* including it, and totalExecutionTime is the sum of all delays (the last
\* executeAt) in minutes and seconds
ExecuteAtCumulative ==
    Planned =>
        LET seq == planner.transactionSequence
            total == DelaySum(seq, Len(seq))
        IN  /\ \A k \in 1..Len(seq) : seq[k].executeAt = DelaySum(seq, k)
            /\ total = seq[Len(seq)].executeAt
            /\ planner.totalExecutionTime.m * 60 + planner.totalExecutionTime.s = total
            /\ planner.totalExecutionTime.s >= 0
            /\ planner.totalExecutionTime.s < 60

\* a plan of twenty steps that takes minutes and seconds
LongPlanTimed ==
    /\ Planned
    /\ Len(planner.transactionSequence) = 20
    /\ planner.totalExecutionTime.m > 0
    /\ planner.totalExecutionTime.s > 0
    /\ planner.transactionSequence[20].executeAt > planner.transactionSequence[19].executeAt

\* the call was made with a total that is not above 0, or is no number, or is
\* above the wallet's balance, and has returned or thrown
InvalidTotalCalled ==
    /\ planner.pc = "done"
    /\ \/ ~planner.parsable
       \/ planner.totalStake <= 0
       \/ planner.totalStake > planner.balance

\* C24: a call with a total that is not above 0, is unparsable, or exceeds
\* the wallet balance returns a failure result and no plan: it never throws
\* and never returns a plan with status pending_approval
InvalidTotalFailsExplicitly ==
    InvalidTotalCalled =>
        /\ planner.result = "failure"
        /\ planner.status # "pending_approval"
        /\ planner.transactionSequence = <<>>

\* C25: decrypting what encrypt returned for a string gives the string
RoundTrip ==
    secure.last.op = "decrypt" =>
        /\ ~secure.last.raised
        /\ secure.last.result = secure.held.plain

\* C26: a value written by setItem under a key is what a later getItem of
\* the key returns, however far the clock has moved, when the key was not
\* written or removed in between
WrittenIsRead ==
    (secure.last.op = "getItem" /\ secure.last.expected # "none") =>
        secure.last.result = secure.last.expected

\* the entry of the key was removed by a failed read and the key has not
\* been written since
Healed(n) == \E intact \in BOOLEAN : <<n, intact>> \in secure.healed

\* C27: getItem on a key whose blob was tampered or cut returns null without
\* raising and removes the entry, and every later getItem on the key returns
\* null without a decryption attempt
SelfHealingRead ==
    [][/\ \A h \in secure'.healed : secure'.backing[SecureKey(h[1])] = Absent
       /\ getSecureItem =>
            LET n == secure'.last.key
                encrypted == secure.backing[SecureKey(n)]
            IN  /\ (encrypted.kind = "blob" /\ ~encrypted.intact) =>
                      /\ secure'.last.result = "null"
                      /\ ~secure'.last.raised
                      /\ secure'.backing[SecureKey(n)] = Absent
                      /\ <<n, FALSE>> \in secure'.healed
                /\ Healed(n) =>
                      /\ secure'.last.result = "null"
                      /\ ~secure'.last.raised
                      /\ secure'.last.decrypts = 0
                      /\ secure'.backing = secure.backing]_vars

\* a key whose tampered blob a read removed is read again
TamperedReadAgain ==
    /\ secure.last.op = "getItem"
    /\ <<secure.last.key, FALSE>> \in secure.healed
    /\ secure.last.decrypts = 0
    /\ secure.last.result = "null"
    /\ secure.digest

\* C28: a setItem whose serialization, encryption or write fails raises and
\* leaves the store as it was; one that succeeds leaves the new blob under
\* the key and nothing else changed
AtomicWrite ==
    [][setSecureItem =>
         LET n == secure'.last.key
             v == secure'.last.arg
         IN  /\ (v = Cyclic \/ ~secure.digest) => secure'.last.raised
             /\ secure'.last.raised => secure'.backing = secure.backing
             /\ ~secure'.last.raised =>
                   \E salt \in Salts :
                      secure'.backing =
                         [secure.backing EXCEPT
                             ![SecureKey(n)] = Sealed(Stringify(v), secure.now, salt)]]_vars

\* a write over a stored value was refused, and the value is still stored
RefusedOverStored ==
    /\ secure.last.op = "setItem"
    /\ secure.last.raised
    /\ secure.last.arg = "v2"
    /\ secure.digest
    /\ secure.written[secure.last.key] = "v1"
    /\ secure.backing[SecureKey(secure.last.key)].text = Stringify("v1")

\* C29: constructing the service calls verifyIntegrity first; when it answers
\* false every entry of the secure namespace is removed before the
\* constructor returns, and when it answers true no entry is removed
StartupPolicy ==
    [][Construct =>
         /\ secure'.last.calls[1] = "verifyIntegrity"
         /\ secure'.last.result = "false" =>
               /\ secure'.last.calls = <<"verifyIntegrity", "clearAllSecureItems">>
               /\ \A k \in BackingKeys : InNamespace(k) => secure'.backing[k] = Absent
         /\ secure'.last.result = "true" =>
               /\ secure'.last.calls = <<"verifyIntegrity">>
               /\ secure'.backing = secure.backing]_vars

\* a construction whose integrity check failed removed two stored entries
StartupCleared ==
    /\ secure.last.op = "construct"
    /\ secure.last.result = "false"
    /\ secure.last.removed = 2
    /\ secure.backing[<<"", "theme">>] = PlainEntry

\* C30: clearAll removes every entry whose key is in the secure namespace
\* and leaves every other entry as it was; removeItem of a key removes the
\* entry of that key only
RemovalFrame ==
    [][/\ clearAllSecureItems =>
            \A k \in BackingKeys :
               secure'.backing[k] = IF InNamespace(k) THEN Absent ELSE secure.backing[k]
       /\ removeSecureItem =>
            \A k \in BackingKeys :
               secure'.backing[k] = IF k = SecureKey(secure'.last.key) THEN Absent
                                    ELSE secure.backing[k]]_vars

\* clearAll removed two stored entries and the entry outside the namespace
\* is still there
NamespaceCleared ==
    /\ secure.last.op = "clearAll"
    /\ secure.last.removed = 2
    /\ secure.backing[<<"", "theme">>] = PlainEntry

\* C31: the stored history holds at most 50 entries, newest first, and they
\* are the most recently recorded transactions (on a build whose digest
\* exists, so that histories are stored at all)
HistoryKeepsNewest ==
    LET entry == secure.history.entry
        stored == IF entry.kind = "blob" THEN entry.text ELSE <<>>
    IN  secure.digest =>
            /\ Len(stored) <= HistoryCap
            /\ stored = Take(secure.history.recorded, HistoryCap)

\* C32: every value the service has in the backing store for the connection
\* metadata, the private key, the plan and the history is a blob encrypt
\* returned, so none of them shows the private key
KeyNeverInClear ==
    /\ \A k \in ConnKeys :
          secure.vault[k].kind # "absent" =>
             /\ secure.vault[k].kind = "blob"
             /\ \E stamp \in Stamps, salt \in Salts :
                   secure.vault[k].key = DeriveKey(MasterPassword(stamp), salt)
    /\ secure.history.entry.kind \in {"absent", "blob"}

\* the metadata, the private key and a plan are stored
KeyStoredSealed ==
    /\ secure.vault["tea_wallet_key"].kind = "blob"
    /\ secure.vault["tea_wallet_key"].text.key = PrivateKey
    /\ secure.vault["tea_wallet_connection"].kind = "blob"
    /\ secure.vault["tea_execution_plan"].kind = "blob"

\* C33: two calls of encrypt on the same plaintext use different salt and
\* IV and return different blobs
CiphertextsDiffer ==
    (/\ secure.held.blob.kind = "blob"
     /\ secure.earlier.blob.kind = "blob"
     /\ secure.held.plain = secure.earlier.plain)
        => /\ secure.held.blob.salt # secure.earlier.blob.salt
           /\ secure.held.blob # secure.earlier.blob

\* the same plaintext was encrypted twice at the same clock stamp
EncryptedTwice ==
    /\ secure.held.blob.kind = "blob"
    /\ secure.earlier.blob.kind = "blob"
    /\ secure.held.plain = "abc"
    /\ secure.earlier.plain = "abc"
    /\ secure.held.blob.key[1] = secure.earlier.blob.key[1]

\* C34: a returned plan has numTx / 2 stake steps, and each of them carries
\* a defined amount above 0 and not above the total asked for
StakeAmountsPositive ==
    Planned =>
        LET seq == planner.transactionSequence
            stakes == {j \in 1..Len(seq) : seq[j].type = "stake"}
        IN  /\ Cardinality(stakes) = planner.numTx \div 2
            /\ \A j \in stakes :
                  /\ seq[j].amountDefined
                  /\ seq[j].amount > 0
                  /\ seq[j].amount <= planner.totalStake

\* C35: a successful unstake step with a percentage below 100 whose balance
\* read was reported as zero does not take the whole of a stake that is
\* not zero
ZeroReadKeepsStake ==
    [][\A c \in inflight :
          (/\ SubmitSucceeds(c)
           /\ StepAt(c.plan, c.idx).type = "unstake"
           /\ StepAt(c.plan, c.idx).percentage < 100
           /\ log[c.call].balance = 0
           /\ staked > 0)
             => staked' > 0]_vars

\* C36: a failed plan generation writes no record to the store under any
\* key and leaves the wallet's persisted plan record as it was
FailedGenerationPersistsNothing ==
    [][GenerateFails => (storage' = storage /\ secure'.backing = secure.backing)]_vars

\* a generation failed while the store held the record of an earlier plan,
\* and the record is still there
FailedOverStoredPlan ==
    /\ transactionPlan = ErrorPlan
    /\ storage # NoPlan
    /\ storage # ErrorPlan

\* C37: loadSavedConnection restores a wallet only from a metadata entry and
\* a key entry that are both readable, carry the same session token, are at
\* most 24 hours old and hold a key of valid format; when the metadata entry
\* is present and the call fails, both entries are gone afterwards; when it
\* is absent the store is left as it was
LoadSavedConnectionPolicy ==
    [][loadSavedConnection =>
        LET connection == secure.vault["tea_wallet_connection"]
            key == secure.vault["tea_wallet_key"]
        IN  /\ secure'.service.result = "success" =>
                 /\ Opens(connection, secure.now, secure.digest)
                 /\ Opens(key, secure.now, secure.digest)
                 /\ connection.text.sessionToken = key.text.sessionToken
                 /\ secure.service.day - connection.text.timestamp <= 0
                 /\ ValidatePrivateKey(key.text.key)
            /\ (connection.kind # "absent" /\ secure'.service.result = "failure") =>
                 /\ secure'.vault["tea_wallet_connection"].kind = "absent"
                 /\ secure'.vault["tea_wallet_key"].kind = "absent"
            /\ connection.kind = "absent" =>
                 /\ secure'.vault = secure.vault
                 /\ secure'.service.result = "failure"]_vars

\* C38: after disconnectWallet on a connected service the store holds no
\* metadata entry, no key entry and no plan entry of the wallet, and the
\* service has no wallet and no session token
DisconnectLeavesNothing ==
    [][(disconnectWallet /\ secure.service.wallet) =>
        /\ \A k \in ConnKeys : secure'.vault[k].kind = "absent"
        /\ ~secure'.service.wallet
        /\ secure'.service.sessionToken = "none"]_vars

\* a connected wallet with a saved plan was disconnected and its three
\* entries were removed
DisconnectedWithPlan ==
    /\ secure.service.op = "disconnect"
    /\ secure.service.removed = 3

====
